---- MODULE Spec2Model ----
(***************************************************************************)
(* A model of tailfs/tailfsimpl/remote_impl.go: FileSystemForRemote (the   *)
(* share router and configuration coordinator) and userServer (the per-    *)
(* owner child process supervisor).                                        *)
(*                                                                         *)
(* Go maps are reference values.  Every SetShares or Close call creates    *)
(* fresh maps; the model names the maps created by call k by the reference *)
(* k, and the maps created by NewFileSystemForRemote by the reference 0.   *)
(* The fields shares, children and userServers of FileSystemForRemote hold *)
(* such references.  A userServer created by call k for owner o is the     *)
(* pair <<k, o>>; a compositedav.Child built by call k for share name n is *)
(* the pair <<k, n>>.                                                      *)
(***************************************************************************)
EXTENDS Integers, Sequences, FiniteSets, TLC

\* ------------------------------------------------------------------ bounds

\* number of SetShares / Close calls in a behaviour
MaxCalls == 2
\* number of child processes one userServer may start while generations are
\* replaced
MaxStarts == 1
\* number of child processes the userServer of a single generation may start
\* the longest share name, in bytes, whose host is decoded
MaxNameLen == 2
\* the longest malformed address Dial is called with, in characters
MaxAddrLen == 3
MaxRuns == 2

\* ------------------------------------------------------------- input sets

\* share names are byte strings
NameA == <<97>>
NameB == <<98>>
ShareNames == {NameA, NameB}

Owners == {"alice", "bob"}

\* a share map: share name -> Share.As (Share.Name is the key)
ShareMaps == UNION {[D -> Owners] : D \in SUBSET ShareNames}

EmptyShares == CHOOSE m \in ShareMaps : DOMAIN m = {}

CallIds == 1 .. MaxCalls
Refs == 0 .. MaxCalls

PermissionNone == "PermissionNone"
PermissionReadOnly == "PermissionReadOnly"
PermissionReadWrite == "PermissionReadWrite"
Permission == {PermissionNone, PermissionReadOnly, PermissionReadWrite}

\* an address is <<kind, listener>>; the empty string of the code is NoAddr
NoAddr == <<"", <<0, "", 0>>>>
FileServerListener == <<0, "fileserver", 0>>
FileServerAddrs == {NoAddr, <<"tcp", FileServerListener>>, <<"unix", FileServerListener>>}

VARIABLES
    allowShareAs,     \* tailfs.AllowShareAs(): fixed for the life of the process
    uid0,             \* whether user.Current().Uid is "0"
    sudoers,          \* the owners "sudo -n -u owner executable" works for
    mu,               \* FileSystemForRemote.mu: [w |-> writer call or 0, r |-> set of readers]
    fileServerAddr,   \* FileSystemForRemote.fileServerAddr
    shares,           \* FileSystemForRemote.shares: a reference
    children,         \* FileSystemForRemote.children: a reference
    userServers,      \* FileSystemForRemote.userServers: a reference
    nextCall,         \* the next call id to hand out
    callKind,         \* call id -> "none" | "SetShares" | "Close"
    callShares,       \* call id -> the share map passed to SetShares
    cpc,              \* call id -> position of the call
    oldUserServers,   \* call id -> local oldUserServers / userServers (a reference)
    oldChildren,      \* call id -> local oldChildren / children (a reference)
    toStop,           \* call id -> userServers stopUserServers has still to visit
    stopping,         \* call id -> the userServer whose Close is running, and the cmd it read
    installSeq,       \* number of installations so far
    installedAt,      \* call id -> position of its installation (0: not installed)
    idleClosed,       \* references whose children had CloseIdleConnections called
    stopErrors,       \* the userServers whose Close returned an error (logged at line 212)
    upc,              \* userServer -> position of its runLoop goroutine ("none": not created)
    closed,           \* userServer.closed
    cmd,              \* userServer.cmd: 0 is nil, n is the n-th process the userServer started
    addr,             \* userServer.addr
    procs,            \* userServer -> the states of the processes it started, in order
    launched,         \* userServer -> the user and arguments of each process it started
    supShares,        \* userServer.shares
    consecutiveFailures,   \* userServer -> local consecutiveFailures of its runLoop
    timeSinceLastFailure,  \* userServer -> local timeSinceLastFailure of its runLoop, in ms
    rpc,              \* position of the request in ServeHTTPWithPerms and in the dial
    rMethod,          \* r.Method
    rShare,           \* shared.CleanAndSplit(r.URL.Path)[0]
    rPerms,           \* permissions: share name -> Permission
    rChildrenMap,     \* local childrenMap of ServeHTTPWithPerms (a reference, -1: not read)
    rHanded,          \* the children handed to h.SetChildren
    rResp,            \* the response written ("" while none is)
    rAccSeq,          \* installSeq when the request was accepted
    dThrough,         \* the child whose Transport.Dial runs
    dShareAddr,       \* the shareAddr argument of Dial (<<>>: Dial was not called)
    dName,            \* local shareName of Dial
    dShares,          \* the reference Dial read from s.shares (-1: not read)
    dUserServers,     \* local userServers of Dial (a reference, -1: not read)
    dFileServerAddr,  \* local fileServerAddr of Dial
    dServer,          \* the userServer whose addr Dial read (<<0, "">>: none)
    dAddr,            \* local addr of Dial
    dStartSeq,        \* installSeq when Dial was entered
    dConns,           \* number of connection attempts of the Dial
    dVia,             \* what the Dial connected with: "" | "tcp" | "safesocket"
    dErr              \* the error Dial returned ("" while none)

envVars == <<allowShareAs, uid0, sudoers>>
fsVars == <<envVars, mu, fileServerAddr, shares, children, userServers>>
callVars == <<nextCall, callKind, callShares, cpc, oldUserServers, oldChildren,
              toStop, stopping, installSeq, installedAt, idleClosed, stopErrors>>
loopVars == <<consecutiveFailures, timeSinceLastFailure>>
supVars == <<upc, closed, cmd, addr, procs, launched, supShares, loopVars>>
reqVars == <<rpc, rMethod, rShare, rPerms, rChildrenMap, rHanded, rResp, rAccSeq>>
dialVars == <<dThrough, dShareAddr, dName, dShares, dUserServers, dFileServerAddr, dServer,
              dAddr, dStartSeq, dConns, dVia, dErr>>
vars == <<fsVars, callVars, supVars, reqVars, dialVars>>

Sups == CallIds \X Owners
NoSup == <<0, "">>
NoChild == <<0, <<>>>>

\* ----------------------------------------------------------- the heap

\* the content of the share map a reference denotes (reference 0: the nil map)
SharesOf(ref) == IF ref > 0 /\ callKind[ref] = "SetShares" THEN callShares[ref] ELSE EmptyShares

\* the userServers map SetShares builds for call k (lines 69-90): one entry per
\* distinct Share.As, and none when AllowShareAs() is false
NewUserServers(k, m) ==
    IF allowShareAs THEN {<<k, m[n]>> : n \in DOMAIN m} ELSE {}

\* the shares of userServer u (p.shares, line 89)
SharesOfServer(u) == {n \in DOMAIN callShares[u[1]] : callShares[u[1]][n] = u[2]}

\* the children map SetShares builds for call k (lines 96-99), keyed by share name
NewChildren(k, m) == {<<k, n>> : n \in DOMAIN m}

\* the content of the userServers map a reference denotes; the maps made by
\* NewFileSystemForRemote (reference 0) and by Close are empty
UserServersOf(ref) ==
    IF ref > 0 /\ callKind[ref] = "SetShares" THEN NewUserServers(ref, callShares[ref]) ELSE {}

\* the content of the children map a reference denotes
ChildrenOf(ref) ==
    IF ref > 0 /\ callKind[ref] = "SetShares" THEN NewChildren(ref, callShares[ref]) ELSE {}

\* ------------------------------------------------- the generation lock

\* MuFree without mutual exclusion
MuFreeUnchecked == TRUE
\* sync.RWMutex.Lock (lines 62, 101, 225) returns when nobody holds mu
MuFree == mu.w = 0 /\ mu.r = {}
Lock(k) == mu' = [mu EXCEPT !.w = k]
\* Unlock put off to the return of the function
UnlockDeferred == mu' = mu
Unlock == mu' = [mu EXCEPT !.w = 0]
RLock(t) == mu' = [mu EXCEPT !.r = @ \cup {t}]
\* RUnlock put off to the return of the function
RUnlockDeferred(t) == mu' = mu
RUnlock(t) == mu' = [mu EXCEPT !.r = @ \ {t}]

\* ------------------------------------------------------------ SetShares

\* SetFileServerAddr (lines 61-65)
SetFileServerAddr(a) ==
    /\ MuFree
    /\ fileServerAddr # a
    /\ fileServerAddr' = a
    /\ UNCHANGED <<envVars, mu, shares, children, userServers>>
    /\ UNCHANGED <<callVars, supVars, reqVars, dialVars>>

\* the orders in which a range loop may visit the shares of map m (the order of
\* a Go map iteration is not fixed)
Orders(m) ==
    {s \in [1 .. Cardinality(DOMAIN m) -> DOMAIN m] :
        \A i, j \in DOMAIN s : i # j => s[i] # s[j]}

\* line 69: the empty map owner -> share list
EmptyServers == [o \in {} |-> <<>>]

\* AddShare replacing the share list of a userServer it finds
AddShareReplacing(servers, m, n) ==
    [o \in DOMAIN servers \cup {m[n]} |-> IF o = m[n] THEN <<n>> ELSE servers[o]]

\* lines 80-89 for one share: the userServer of its owner is looked up, created
\* when there is none, and the share is appended to its list
AddShare(servers, m, n) ==
    IF m[n] \in DOMAIN servers
    THEN [servers EXCEPT ![m[n]] = Append(@, n)]
    ELSE [o \in DOMAIN servers \cup {m[n]} |-> IF o = m[n] THEN <<n>> ELSE servers[o]]

\* lines 69-90: the loop over the shares, visited in the given order
RECURSIVE BuildUserServers(_, _, _)
BuildUserServers(servers, m, order) ==
    IF order = <<>> THEN servers
    ELSE BuildUserServers(AddShare(servers, m, Head(order)), m, Tail(order))

\* the local userServers of SetShares at line 91, as owner -> share list
BuiltUserServers(m, order) ==
    IF allowShareAs THEN BuildUserServers(EmptyServers, m, order) ELSE EmptyServers

\* StartedLoops starting the run loop of one userServer only
StartedLoopsFirst(k, built) ==
    IF DOMAIN built = {} THEN {}
    ELSE {<<k, CHOOSE o \in DOMAIN built : TRUE>>}

\* the userServers whose runLoop SetShares starts (lines 91-93): the values of
\* the map it built
StartedLoops(k, built) == {<<k, o>> : o \in DOMAIN built}

\* AfterExecutableError going on to install what was built so far
AfterExecutableErrorGoesOn == "lock"

\* where SetShares is after os.Executable() has failed (lines 74-77): it has
\* returned
AfterExecutableError == "done"

\* SetShares, lines 68-99: the maps are built and the run loops started before
\* the lock is taken.  okExecutable is the outcome of os.Executable().
SetSharesBuild(k, m, okExecutable) ==
    /\ k = nextCall
    /\ cpc[k] = "idle"
    /\ nextCall' = k + 1
    /\ IF allowShareAs /\ ~okExecutable
       THEN \* line 76: return
            /\ callKind' = [callKind EXCEPT ![k] = "failed"]
            /\ cpc' = [cpc EXCEPT ![k] = AfterExecutableError]
            /\ UNCHANGED <<callShares, upc, supShares, loopVars>>
       ELSE /\ callKind' = [callKind EXCEPT ![k] = "SetShares"]
            /\ callShares' = [callShares EXCEPT ![k] = m]
            /\ cpc' = [cpc EXCEPT ![k] = "lock"]
            /\ \E order \in Orders(m) :
                  LET built == BuiltUserServers(m, order)
                  IN /\ upc' = [u \in Sups |->
                                  IF u \in StartedLoops(k, built) THEN "loop" ELSE upc[u]]
                     /\ supShares' = [u \in Sups |->
                                  IF u \in StartedLoops(k, built)
                                  THEN built[u[2]] ELSE supShares[u]]
    /\ UNCHANGED <<oldUserServers, oldChildren, toStop, stopping, installSeq,
                   installedAt, idleClosed, stopErrors>>
    /\ UNCHANGED <<fsVars, closed, cmd, addr, procs, launched, loopVars, reqVars, dialVars>>

\* line 101
SetSharesLock(k) ==
    /\ cpc[k] = "lock"
    /\ callKind[k] = "SetShares"
    /\ MuFree
    /\ Lock(k)
    /\ cpc' = [cpc EXCEPT ![k] = "assign"]
    /\ UNCHANGED <<envVars, fileServerAddr, shares, children, userServers>>
    /\ UNCHANGED <<nextCall, callKind, callShares, oldUserServers, oldChildren,
                   toStop, stopping, installSeq, installedAt, idleClosed, stopErrors>>
    /\ UNCHANGED <<supVars, reqVars, dialVars>>

\* lines 102-104
SetSharesAssign(k) ==
    /\ cpc[k] = "assign"
    /\ callKind[k] = "SetShares"
    /\ shares' = k
    /\ oldUserServers' = [oldUserServers EXCEPT ![k] = userServers]
    /\ oldChildren' = [oldChildren EXCEPT ![k] = children]
    /\ cpc' = [cpc EXCEPT ![k] = "install"]
    /\ UNCHANGED <<envVars, mu, fileServerAddr, children, userServers>>
    /\ UNCHANGED <<nextCall, callKind, callShares, toStop, stopping, installSeq,
                   installedAt, idleClosed, stopErrors>>
    /\ UNCHANGED <<supVars, reqVars, dialVars>>

\* ServersToStop stopping the userServers the call installs
ServersToStopNew(old, new) == UserServersOf(new)

\* ServersToStop stopping the userServers of both maps
ServersToStopBoth(old, new) == UserServersOf(old) \cup UserServersOf(new)

\* the userServers handed to stopUserServers (lines 109 and 232): those of the
\* map that was current before the call installed its own
ServersToStop(old, new) == UserServersOf(old)

\* lines 105-107, and the entry of stopUserServers (line 109)
SetSharesInstall(k) ==
    /\ cpc[k] = "install"
    /\ callKind[k] = "SetShares"
    /\ children' = k
    /\ userServers' = k
    /\ Unlock
    /\ installSeq' = installSeq + 1
    /\ installedAt' = [installedAt EXCEPT ![k] = installSeq + 1]
    /\ toStop' = [toStop EXCEPT ![k] = ServersToStop(oldUserServers[k], k)]
    /\ cpc' = [cpc EXCEPT ![k] = "stop"]
    /\ UNCHANGED <<envVars, fileServerAddr, shares>>
    /\ UNCHANGED <<nextCall, callKind, callShares, oldUserServers, oldChildren,
                   stopping, idleClosed, stopErrors>>
    /\ UNCHANGED <<supVars, reqVars, dialVars>>

\* ---------------------------------------------------------------- Close

\* line 225
CloseLock(k) ==
    /\ k = nextCall
    /\ cpc[k] = "idle"
    /\ MuFree
    /\ Lock(k)
    /\ nextCall' = k + 1
    /\ callKind' = [callKind EXCEPT ![k] = "Close"]
    /\ cpc' = [cpc EXCEPT ![k] = "install"]
    /\ UNCHANGED <<envVars, fileServerAddr, shares, children, userServers>>
    /\ UNCHANGED <<callShares, oldUserServers, oldChildren, toStop, stopping,
                   installSeq, installedAt, idleClosed, stopErrors>>
    /\ UNCHANGED <<supVars, reqVars, dialVars>>

\* SharesAfterClose emptying the maps Close replaces instead of making new ones
SharesClearedInPlace ==
    [j \in CallIds |-> IF j = userServers \/ j = children THEN EmptyShares ELSE callShares[j]]

\* what the maps built by the SetShares calls hold once Close has installed its
\* own (lines 228-229 make new maps and leave the old ones as they are)
SharesAfterClose == callShares

\* lines 226-230, and the entry of stopUserServers (line 232)
CloseInstall(k) ==
    /\ cpc[k] = "install"
    /\ callKind[k] = "Close"
    /\ oldUserServers' = [oldUserServers EXCEPT ![k] = userServers]
    /\ oldChildren' = [oldChildren EXCEPT ![k] = children]
    /\ userServers' = k
    /\ children' = k
    /\ Unlock
    /\ installSeq' = installSeq + 1
    /\ installedAt' = [installedAt EXCEPT ![k] = installSeq + 1]
    /\ toStop' = [toStop EXCEPT ![k] = ServersToStop(userServers, k)]
    /\ cpc' = [cpc EXCEPT ![k] = "stop"]
    /\ UNCHANGED <<envVars, fileServerAddr, shares>>
    /\ callShares' = SharesAfterClose
    /\ UNCHANGED <<nextCall, callKind, stopping, idleClosed, stopErrors>>
    /\ UNCHANGED <<supVars, reqVars, dialVars>>

\* ------------------------------------------- stopUserServers, closeChildren

\* the userServers stopUserServers may visit next (lines 209-215; the order of a
\* Go map iteration is not fixed)
StopCandidates(k) == IF cpc[k] = "stop" THEN toStop[k] ELSE {}

\* userServer.Close, lines 255-258, called from line 211
UserServerCloseMark(k, u) ==
    /\ u \in StopCandidates(k)
    /\ closed' = [closed EXCEPT ![u] = TRUE]
    /\ stopping' = [stopping EXCEPT ![k] = <<u, cmd[u]>>]
    /\ toStop' = [toStop EXCEPT ![k] = @ \ {u}]
    /\ cpc' = [cpc EXCEPT ![k] = "kill"]
    /\ UNCHANGED <<nextCall, callKind, callShares, oldUserServers, oldChildren,
                   installSeq, installedAt, idleClosed, stopErrors>>
    /\ UNCHANGED <<fsVars, upc, cmd, addr, procs, launched, supShares, loopVars, reqVars, dialVars>>

\* whether cmd.Process.Kill() on process c of userServer u may return an
\* error: only when there is a process and it has ended
KillMayFail(u, c) == c # 0 /\ procs[u][c] # "alive"

\* StillToStop leaving stopUserServers at the first error
StillToStopUntilError(k, err) == IF err THEN {} ELSE toStop[k]

\* the userServers stopUserServers goes on to after one Close has returned
\* (lines 210-214): the error is logged and the loop continues
StillToStop(k, err) == toStop[k]

\* userServer.Close, lines 259-263: cmd.Process.Kill() on the process read under
\* the lock; err tells whether Kill returns an error, which Close returns and
\* line 212 logs
UserServerCloseKill(k, err) ==
    /\ cpc[k] = "kill"
    /\ LET u == stopping[k][1]
           c == stopping[k][2]
       IN /\ err => KillMayFail(u, c)
          /\ procs' = IF c # 0 /\ procs[u][c] = "alive"
                      THEN [procs EXCEPT ![u][c] = "killed"]
                      ELSE procs
          /\ stopErrors' = IF err THEN stopErrors \cup {u} ELSE stopErrors
          /\ toStop' = [toStop EXCEPT ![k] = StillToStop(k, err)]
    /\ stopping' = [stopping EXCEPT ![k] = <<NoSup, 0>>]
    /\ cpc' = [cpc EXCEPT ![k] = "stop"]
    /\ UNCHANGED <<nextCall, callKind, callShares, oldUserServers, oldChildren,
                   installSeq, installedAt, idleClosed>>
    /\ UNCHANGED <<fsVars, upc, closed, cmd, addr, launched, supShares, loopVars, reqVars, dialVars>>

\* closeChildren (lines 217-221), called from lines 110 and 233 once
\* stopUserServers has returned
CloseChildren(k) ==
    /\ cpc[k] = "stop"
    /\ toStop[k] = {}
    /\ idleClosed' = idleClosed \cup {oldChildren[k]}
    /\ cpc' = [cpc EXCEPT ![k] = "done"]
    /\ oldUserServers' = [oldUserServers EXCEPT ![k] = -1]
    /\ oldChildren' = [oldChildren EXCEPT ![k] = -1]
    /\ UNCHANGED <<nextCall, callKind, callShares, toStop, stopping, installSeq,
                   installedAt, stopErrors>>
    /\ UNCHANGED <<fsVars, supVars, reqVars, dialVars>>

\* -------------------------------------------------------------- userServer

\* the addresses a child of userServer u may print as its first line; NoAddr is
\* the blank line strings.TrimSpace turns into ""
ChildAddrs(u, n) == {<<"tcp", <<u[1], u[2], n>>>>, <<"unix", <<u[1], u[2], n>>>>, NoAddr}

\* AfterCheck giving up once run has failed
AfterCheckGivingUp(u) ==
    IF closed[u] \/ consecutiveFailures[u] > 0 THEN "returned" ELSE "run"

\* lines 274-278: the loop returns when the userServer is closed and calls run
\* otherwise
AfterCheck(u) == IF closed[u] THEN "returned" ELSE "run"

\* runLoop, lines 271-276: the closed flag is read at the top of every iteration
RunLoopCheck(u) ==
    /\ upc[u] = "loop"
    /\ upc' = [upc EXCEPT ![u] = AfterCheck(u)]
    /\ UNCHANGED <<closed, cmd, addr, procs, launched, supShares, loopVars>>
    /\ UNCHANGED <<fsVars, callVars, reqVars, dialVars>>

\* run, lines 300-336, when it returns an error before a child runs: the
\* assertNotRoot error (line 317), a pipe error (324, 329), a start error (335)
RunFail(u) ==
    /\ upc[u] = "run"
    /\ upc' = [upc EXCEPT ![u] = "sleep"]
    /\ UNCHANGED <<closed, cmd, addr, procs, launched, supShares, loopVars>>
    /\ UNCHANGED <<fsVars, callVars, reqVars, dialVars>>

\* the path of the share of name n (Share.Path)
SharePath(n) == <<47>> \o n

\* lines 301-304: "serve-tailfs" followed by the name and path of every share
\* of the list
RECURSIVE ServeArgs(_)
ServeArgs(list) ==
    IF list = <<>> THEN <<"serve-tailfs">>
    ELSE ServeArgs(SubSeq(list, 1, Len(list) - 1))
         \o <<list[Len(list)], SharePath(list[Len(list)])>>

\* canSudo succeeding whatever the sudo configuration
canSudoAlways(u) == TRUE

\* lines 380-387: the probe "sudo -n -u username executable -h"
canSudo(u) == u[2] \in sudoers

\* assertNotRoot letting the super-user through
assertNotRootSkipped == TRUE

\* lines 395-404: whether assertNotRoot returns no error
assertNotRoot == ~uid0

\* the account of this process
CurrentUser == IF uid0 THEN "root" ELSE "daemon"

\* lines 305-321: the user the command runs as: the owner through sudo, or the
\* account of this process
CommandUser(u) == IF canSudo(u) THEN u[2] ELSE CurrentUser

\* run, lines 300-333: the command is built and cmd.Start() succeeds
RunStart(u) ==
    /\ upc[u] = "run"
    /\ Len(procs[u]) < MaxRuns
    /\ canSudo(u) \/ assertNotRoot
    /\ procs' = [procs EXCEPT ![u] = Append(@, "alive")]
    /\ launched' = [launched EXCEPT ![u] =
                       Append(@, [user |-> CommandUser(u), sudo |-> canSudo(u),
                                  args |-> ServeArgs(supShares[u])])]
    /\ upc' = [upc EXCEPT ![u] = "started"]
    /\ UNCHANGED <<closed, cmd, addr, supShares, loopVars>>
    /\ UNCHANGED <<fsVars, callVars, reqVars, dialVars>>

\* run, lines 337-339
RunSetCmd(u) ==
    /\ upc[u] = "started"
    /\ cmd' = [cmd EXCEPT ![u] = Len(procs[u])]
    /\ upc' = [upc EXCEPT ![u] = "scan"]
    /\ UNCHANGED <<closed, addr, procs, launched, supShares, loopVars>>
    /\ UNCHANGED <<fsVars, callVars, reqVars, dialVars>>

\* run, lines 342-346: the scanner ends with an error
RunScanError(u) ==
    /\ upc[u] = "scan"
    /\ upc' = [upc EXCEPT ![u] = "sleep"]
    /\ UNCHANGED <<closed, cmd, addr, procs, launched, supShares, loopVars>>
    /\ UNCHANGED <<fsVars, callVars, reqVars, dialVars>>

\* the address run publishes (lines 347, 361) when the scanner stopped without
\* an error: the trimmed line, or "" when the child's stdout ended before a line
\* (Scan returns false, Err() is nil and Text() is empty)
PublishedAddr(u, line) == line

\* Published writing the address to every userServer of the generation
PublishedToGeneration(u, a) == [v \in Sups |-> IF v[1] = u[1] THEN a ELSE addr[v]]

\* lines 360-362: the address is written to the addr field of the userServer
\* whose run read it, under that userServer's own lock
Published(u, a) == [addr EXCEPT ![u] = a]

\* run, lines 342-362: a line was read from a live child
RunPublish(u, line) ==
    /\ upc[u] = "scan"
    /\ procs[u][Len(procs[u])] = "alive"
    /\ line \in ChildAddrs(u, Len(procs[u]))
    /\ addr' = Published(u, PublishedAddr(u, line))
    /\ upc' = [upc EXCEPT ![u] = "wait"]
    /\ UNCHANGED <<closed, cmd, procs, launched, supShares, loopVars>>
    /\ UNCHANGED <<fsVars, callVars, reqVars, dialVars>>

\* run, lines 342-362: the child ended before it printed a line
RunPublishEOF(u) ==
    /\ upc[u] = "scan"
    /\ procs[u][Len(procs[u])] # "alive"
    /\ addr' = Published(u, PublishedAddr(u, NoAddr))
    /\ upc' = [upc EXCEPT ![u] = "wait"]
    /\ UNCHANGED <<closed, cmd, procs, launched, supShares, loopVars>>
    /\ UNCHANGED <<fsVars, callVars, reqVars, dialVars>>

\* run, line 363: cmd.Wait() returns once the child has ended
RunWait(u) ==
    /\ upc[u] = "wait"
    /\ procs[u][Len(procs[u])] # "alive"
    /\ upc' = [upc EXCEPT ![u] = "sleep"]
    /\ UNCHANGED <<closed, cmd, addr, procs, launched, supShares, loopVars>>
    /\ UNCHANGED <<fsVars, callVars, reqVars, dialVars>>

\* line 267, in milliseconds
maxSleepTime == 30000

\* the Duration that Time.Sub saturates at (1<<63 - 1 ns), as the largest
\* number of milliseconds the model counts
Saturated == 2147483647

\* SleepTime without the ceiling
SleepTimeUncapped(n) == 2 ^ n

\* lines 287-290: time.Duration(math.Pow(2, n)) * time.Millisecond, at most
\* maxSleepTime
SleepTime(n) == IF 2 ^ n > maxSleepTime THEN maxSleepTime ELSE 2 ^ n

\* Failures resetting only when the gap exceeds the ceiling
FailuresResetBeyond(n, since) == IF since <= maxSleepTime THEN n + 1 ELSE 1

\* lines 282-286: the counter after a failure that comes the given time after
\* the previous one
Failures(n, since) == IF since < maxSleepTime THEN n + 1 ELSE 1

\* the values now.Sub(timeOfLastFailure) may have at line 280: the saturated
\* Duration on the first failure, when timeOfLastFailure is the zero Time;
\* afterwards no less than the time slept since the previous failure
Elapsed(u, since) ==
    IF consecutiveFailures[u] = 0 THEN since = Saturated
    ELSE since >= SleepTime(consecutiveFailures[u])

\* runLoop, lines 279-292: the delay is computed from the time since the
\* previous failure and slept
RunLoopSleep(u, since) ==
    /\ upc[u] = "sleep"
    /\ Elapsed(u, since)
    /\ timeSinceLastFailure' = [timeSinceLastFailure EXCEPT ![u] = since]
    /\ consecutiveFailures' = [consecutiveFailures EXCEPT ![u] = Failures(@, since)]
    /\ upc' = [upc EXCEPT ![u] = "loop"]
    /\ UNCHANGED <<closed, cmd, addr, procs, launched, supShares>>
    /\ UNCHANGED <<fsVars, callVars, reqVars, dialVars>>

\* a child process ends on its own
ChildExit(u, n) ==
    /\ n \in 1 .. Len(procs[u])
    /\ procs[u][n] = "alive"
    /\ procs' = [procs EXCEPT ![u][n] = "exited"]
    /\ UNCHANGED <<upc, closed, cmd, addr, launched, supShares, loopVars>>
    /\ UNCHANGED <<fsVars, callVars, reqVars, dialVars>>

\* ------------------------------------------------------ the host of a child

HexDigits == <<"0", "1", "2", "3", "4", "5", "6", "7", "8", "9",
               "a", "b", "c", "d", "e", "f">>

\* EncodeToString writing the low nibble first
RECURSIVE EncodeToStringLowFirst(_)
EncodeToStringLowFirst(bs) ==
    IF bs = <<>> THEN <<>>
    ELSE <<HexDigits[(Head(bs) % 16) + 1], HexDigits[(Head(bs) \div 16) + 1]>>
         \o EncodeToStringLowFirst(Tail(bs))

\* hex.EncodeToString (line 118): two digits per byte, high nibble first
RECURSIVE EncodeToString(_)
EncodeToString(bs) ==
    IF bs = <<>> THEN <<>>
    ELSE <<HexDigits[(Head(bs) \div 16) + 1], HexDigits[(Head(bs) % 16) + 1]>>
         \o EncodeToString(Tail(bs))

\* the digits hex.DecodeString accepts besides those of HexDigits
HexDigitsUpper == <<"0", "1", "2", "3", "4", "5", "6", "7", "8", "9",
                    "A", "B", "C", "D", "E", "F">>

HexValue(c) == IF \E i \in 1 .. 16 : HexDigits[i] = c \/ HexDigitsUpper[i] = c
               THEN (CHOOSE i \in 1 .. 16 : HexDigits[i] = c \/ HexDigitsUpper[i] = c) - 1
               ELSE -1

\* hex.DecodeString (line 127): an odd length or a character that is no hex
\* digit is an error
RECURSIVE DecodeString(_)
DecodeString(hs) ==
    IF hs = <<>> THEN [ok |-> TRUE, bytes |-> <<>>]
    ELSE IF Len(hs) = 1 \/ HexValue(hs[1]) < 0 \/ HexValue(hs[2]) < 0
    THEN [ok |-> FALSE, bytes |-> <<>>]
    ELSE LET rest == DecodeString(SubSeq(hs, 3, Len(hs)))
         IN [ok |-> rest.ok,
             bytes |-> IF rest.ok
                       THEN <<HexValue(hs[1]) * 16 + HexValue(hs[2])>> \o rest.bytes
                       ELSE <<>>]

\* the host of the BaseURL buildChild gives the child of share name n (line 118)
BaseURLHost(n) == EncodeToString(n)

\* the address the child's http.Transport hands to Dial for a request to the
\* BaseURL of host h (lines 118-120): the host and the port of the http scheme
TransportAddr(h) == h \o <<":", "8", "0">>

\* the positions of character c in string a
Positions(a, c) == {i \in 1 .. Len(a) : a[i] = c}

Max(S) == CHOOSE i \in S : \A j \in S : j <= i
Min(S) == CHOOSE i \in S : \A j \in S : i <= j

\* net.SplitHostPort (line 121): the host is what precedes the last colon; an
\* address without a colon, with a colon in the host, or with a misplaced
\* bracket is an error
SplitHostPort(a) ==
    LET colons == Positions(a, ":")
        opens == Positions(a, "[")
        closes == Positions(a, "]")
        bad == [ok |-> FALSE, host |-> <<>>]
    IN IF colons = {} THEN bad
       ELSE LET i == Max(colons)
            IN IF a[1] = "["
               THEN IF closes = {} THEN bad
                    ELSE LET end == Min(closes)
                         IN IF end + 1 # i THEN bad
                            ELSE IF opens # {1} \/ closes # {end} THEN bad
                            ELSE [ok |-> TRUE, host |-> SubSeq(a, 2, end - 1)]
               ELSE IF colons # {i} \/ opens # {} \/ closes # {} THEN bad
                    ELSE [ok |-> TRUE, host |-> SubSeq(a, 1, i - 1)]

\* lines 121-131: the share name Dial takes from shareAddr, or the error it
\* returns before it reads anything
ParseShareAddr(shareAddr) ==
    LET split == SplitHostPort(shareAddr)
        decoded == DecodeString(split.host)
    IN IF ~split.ok THEN [ok |-> FALSE, err |-> "parse", bytes |-> <<>>]
       ELSE IF ~decoded.ok THEN [ok |-> FALSE, err |-> "decode", bytes |-> <<>>]
       ELSE [ok |-> TRUE, err |-> "", bytes |-> decoded.bytes]

\* the share name Dial decodes from the host of its child (lines 121-131)
DialShareName(child) == ParseShareAddr(TransportAddr(BaseURLHost(child[2])))

\* ------------------------------------------------------ ServeHTTPWithPerms

\* lines 366-375
writeMethods == {"PUT", "POST", "COPY", "LOCK", "UNLOCK", "MKCOL", "MOVE", "PROPPATCH"}

ReadMethods == {"GET", "PROPFIND", "DELETE"}
Methods == writeMethods \cup ReadMethods

Policies == [ShareNames -> Permission]

\* line 173
IsWrite(method) == method \in writeMethods

\* PermCheck with the PermissionReadOnly case left out
PermCheckReadOnlyPasses(method, perm) ==
    IF IsWrite(method) /\ perm = PermissionNone THEN "NotFound" ELSE ""

\* PermCheck with the PermissionNone case left out
PermCheckNonePasses(method, perm) ==
    IF IsWrite(method) /\ perm = PermissionReadOnly THEN "Forbidden" ELSE ""

\* lines 174-186: the response the permission check writes, "" when it lets the
\* request through
PermCheck(method, perm) ==
    IF IsWrite(method)
    THEN CASE perm = PermissionNone -> "NotFound"
           [] perm = PermissionReadOnly -> "Forbidden"
           [] OTHER -> ""
    ELSE ""

\* VisibleChildren without the filter
VisibleChildrenAll(childrenMap, perms) == childrenMap

\* VisibleChildren keeping only the children the principal may write to
VisibleChildrenWritable(childrenMap, perms) ==
    {c \in childrenMap : perms[c[2]] = PermissionReadWrite}

\* lines 192-200: the children the principal has access to
VisibleChildren(childrenMap, perms) ==
    {c \in childrenMap : perms[c[2]] # PermissionNone}

\* lines 172-186
Accept(method, share, perms) ==
    /\ rpc = "idle"
    /\ rMethod' = method
    /\ rShare' = share
    /\ rPerms' = perms
    /\ rAccSeq' = installSeq
    /\ rResp' = PermCheck(method, perms[share])
    /\ rpc' = IF PermCheck(method, perms[share]) = "" THEN "rlock" ELSE "done"
    /\ UNCHANGED <<rChildrenMap, rHanded>>
    /\ UNCHANGED <<fsVars, callVars, supVars, dialVars>>

\* line 188
ServeRLock ==
    /\ rpc = "rlock"
    /\ mu.w = 0
    /\ RLock("serve")
    /\ rpc' = "read"
    /\ UNCHANGED <<envVars, fileServerAddr, shares, children, userServers>>
    /\ UNCHANGED <<rMethod, rShare, rPerms, rChildrenMap, rHanded, rResp, rAccSeq>>
    /\ UNCHANGED <<callVars, supVars, dialVars>>

\* lines 189-205
ServeReadChildren ==
    /\ rpc = "read"
    /\ rChildrenMap' = children
    /\ RUnlock("serve")
    /\ rHanded' = VisibleChildren(ChildrenOf(children), rPerms)
    /\ rpc' = "serve"
    /\ UNCHANGED <<envVars, fileServerAddr, shares, children, userServers>>
    /\ UNCHANGED <<rMethod, rShare, rPerms, rResp, rAccSeq>>
    /\ UNCHANGED <<callVars, supVars, dialVars>>

\* the child the composite handler delegates a request for share name n to:
\* the one of that name among the children it was given, NoChild when none is
HandlerChild(handed, n) ==
    IF \E c \in handed : c[2] = n
    THEN CHOOSE c \in handed : c[2] = n
    ELSE NoChild

\* Dial of child c is called with shareAddr (lines 120-131)
DialEnter(c, shareAddr) ==
    /\ dThrough' = c
    /\ dShareAddr' = shareAddr
    /\ dStartSeq' = installSeq
    /\ IF ParseShareAddr(shareAddr).ok
       THEN /\ dName' = ParseShareAddr(shareAddr).bytes
            /\ rpc' = "drlock"
            /\ UNCHANGED <<rResp, dErr>>
       ELSE /\ dErr' = ParseShareAddr(shareAddr).err
            /\ rResp' = "BadGateway"
            /\ rpc' = "done"
            /\ UNCHANGED dName
    /\ UNCHANGED <<dShares, dUserServers, dFileServerAddr, dServer, dAddr, dConns, dVia>>

\* line 206, h.ServeHTTP: a share that is not among the children is not found;
\* otherwise the request goes to the child's transport, whose Dial (lines
\* 120-131) decodes the share name from the host
ServeDispatch ==
    /\ rpc = "serve"
    /\ LET c == HandlerChild(rHanded, rShare)
       IN IF c = NoChild
          THEN /\ rResp' = "NotFound"
               /\ rpc' = "done"
               /\ UNCHANGED dialVars
          ELSE DialEnter(c, TransportAddr(BaseURLHost(c[2])))
    /\ UNCHANGED <<rMethod, rShare, rPerms, rChildrenMap, rHanded, rAccSeq>>
    /\ UNCHANGED <<fsVars, callVars, supVars>>

\* Dial of the child the request goes to is called with an address of the
\* caller's choice (Transport.Dial is an exported field; lines 120-131)
DialWith(shareAddr) ==
    /\ rpc = "serve"
    /\ HandlerChild(rHanded, rShare) # NoChild
    /\ DialEnter(HandlerChild(rHanded, rShare), shareAddr)
    /\ UNCHANGED <<rMethod, rShare, rPerms, rChildrenMap, rHanded, rAccSeq>>
    /\ UNCHANGED <<fsVars, callVars, supVars>>

\* line 133
DialRLock ==
    /\ rpc = "drlock"
    /\ mu.w = 0
    /\ RLock("dial")
    /\ rpc' = "dread"
    /\ UNCHANGED <<envVars, fileServerAddr, shares, children, userServers>>
    /\ UNCHANGED <<rMethod, rShare, rPerms, rChildrenMap, rHanded, rResp, rAccSeq>>
    /\ UNCHANGED <<callVars, supVars, dialVars>>

\* DialUserServers taking the map built together with the child
DialUserServersOfChild(through) == through[1]

\* the userServers map Dial consults (line 135): the one current under the lock
DialUserServers(through) == userServers

\* DialShares taking the map the child was built from
DialSharesOfChild(through) == through[1]

\* the share map Dial consults (line 134): the one current under the lock
DialShares(through) == shares

\* lines 134-137
DialRead ==
    /\ rpc = "dread"
    /\ dShares' = DialShares(dThrough)
    /\ dUserServers' = DialUserServers(dThrough)
    /\ dFileServerAddr' = fileServerAddr
    /\ RUnlock("dial")
    /\ rpc' = "resolve"
    /\ UNCHANGED <<envVars, fileServerAddr, shares, children, userServers>>
    /\ UNCHANGED <<rMethod, rShare, rPerms, rChildrenMap, rHanded, rResp, rAccSeq>>
    /\ UNCHANGED <<dThrough, dShareAddr, dName, dServer, dAddr, dStartSeq, dConns, dVia, dErr>>
    /\ UNCHANGED <<callVars, supVars>>

\* ShareFound finding every name
ShareFoundAlways(sharesRef, name) == TRUE

\* line 139
ShareFound(sharesRef, name) == name \in DOMAIN SharesOf(sharesRef)

\* line 147: the userServer of owner o in the map, NoSup when there is none
LookupUserServer(serversRef, o) ==
    IF \E u \in UserServersOf(serversRef) : u[2] = o
    THEN CHOOSE u \in UserServersOf(serversRef) : u[2] = o
    ELSE NoSup

\* DialAddr taking the address of the owner's userServer whatever AllowShareAs()
DialAddrOfUserServer(sharesRef, serversRef, fsAddr, name) ==
    LET u == IF \E v \in UserServersOf(serversRef) : v[2] = SharesOf(sharesRef)[name]
             THEN CHOOSE v \in UserServersOf(serversRef) : v[2] = SharesOf(sharesRef)[name]
             ELSE NoSup
    IN IF u = NoSup THEN NoAddr ELSE addr[u]

\* lines 143-153
DialAddr(sharesRef, serversRef, fsAddr, name) ==
    IF ~allowShareAs THEN fsAddr
    ELSE LET u == LookupUserServer(serversRef, SharesOf(sharesRef)[name])
         IN IF u = NoSup THEN NoAddr ELSE addr[u]

\* lines 139-157
DialResolve ==
    /\ rpc = "resolve"
    /\ IF ~ShareFound(dShares, dName)
       THEN /\ dErr' = "unknown share"
            /\ rResp' = "BadGateway"
            /\ rpc' = "done"
            /\ UNCHANGED <<dServer, dAddr>>
       ELSE /\ dServer' = IF allowShareAs
                           THEN LookupUserServer(dUserServers, SharesOf(dShares)[dName])
                           ELSE NoSup
            /\ dAddr' = DialAddr(dShares, dUserServers, dFileServerAddr, dName)
            /\ IF DialAddr(dShares, dUserServers, dFileServerAddr, dName) = NoAddr
               THEN /\ dErr' = "no address"
                    /\ rResp' = "BadGateway"
                    /\ rpc' = "done"
               ELSE /\ rpc' = "connect"
                    /\ UNCHANGED <<dErr, rResp>>
    /\ UNCHANGED <<rMethod, rShare, rPerms, rChildrenMap, rHanded, rAccSeq>>
    /\ UNCHANGED <<dThrough, dShareAddr, dName, dShares, dUserServers, dFileServerAddr,
                   dStartSeq, dConns, dVia>>
    /\ UNCHANGED <<fsVars, callVars, supVars>>

\* whether something listens at address a: a live child, or the file server
\* (which is outside this program, so either answer is possible)
Listening(a, fileServerUp) ==
    IF a[2] = FileServerListener THEN fileServerUp
    ELSE procs[<<a[2][1], a[2][2]>>][a[2][3]] = "alive"

\* netip.ParseAddrPort (line 159) succeeds: the address is an IP address and
\* a port
ParseAddrPort(a) == a[1] = "tcp"

\* ConnectVia always dialling tcp
ConnectViaTcp(a) == "tcp"

\* lines 159-165: what the address is connected with
ConnectVia(a) == IF ParseAddrPort(a) THEN "tcp" ELSE "safesocket"

\* Attempts trying the other mechanism after a failure
AttemptsWithFallback(listening) == IF listening THEN 1 ELSE 2

\* lines 159-165: the connection attempts of one Dial, whose result is
\* returned whether it is a connection or an error
Attempts(listening) == 1

\* AddrAfterConnect clearing the address of the userServer that was dialled
\* when nothing answers
AddrClearedOnFailure(listening) ==
    IF ~listening /\ dServer # NoSup THEN [addr EXCEPT ![dServer] = NoAddr] ELSE addr

\* lines 159-165: the addresses of the userServers after the connection
\* attempt; Dial only reads userServer.addr (line 150)
AddrAfterConnect(listening) == addr

\* lines 159-165: net.Dial for an address and port, safesocket.Connect otherwise
DialConnect(fileServerUp) ==
    /\ rpc = "connect"
    /\ dConns' = dConns + Attempts(Listening(dAddr, fileServerUp))
    /\ dVia' = ConnectVia(dAddr)
    /\ IF Listening(dAddr, fileServerUp)
       THEN /\ rpc' = "inflight"
            /\ UNCHANGED <<dErr, rResp>>
       ELSE /\ dErr' = "connect"
            /\ rResp' = "BadGateway"
            /\ rpc' = "done"
    /\ UNCHANGED <<rMethod, rShare, rPerms, rChildrenMap, rHanded, rAccSeq>>
    /\ addr' = AddrAfterConnect(Listening(dAddr, fileServerUp))
    /\ UNCHANGED <<dThrough, dShareAddr, dName, dShares, dUserServers, dFileServerAddr,
                   dServer, dAddr, dStartSeq>>
    /\ UNCHANGED <<fsVars, callVars>>
    /\ UNCHANGED <<upc, closed, cmd, procs, launched, supShares, loopVars>>

\* the backend answers and the response flows back unchanged, or the
\* connection breaks because the backend has gone
ServeComplete(fileServerUp) ==
    /\ rpc = "inflight"
    /\ rResp' = IF Listening(dAddr, fileServerUp) THEN "Proxied" ELSE "BadGateway"
    /\ rpc' = "done"
    /\ UNCHANGED <<rMethod, rShare, rPerms, rChildrenMap, rHanded, rAccSeq>>
    /\ UNCHANGED <<fsVars, callVars, supVars, dialVars>>

NoPolicy == [n \in ShareNames |-> PermissionNone]

ReqInit ==
    /\ rpc = "idle"
    /\ rMethod = ""
    /\ rShare = <<>>
    /\ rPerms = NoPolicy
    /\ rChildrenMap = -1
    /\ rHanded = {}
    /\ rResp = ""
    /\ rAccSeq = 0
    /\ dThrough = NoChild
    /\ dShareAddr = <<>>
    /\ dName = <<>>
    /\ dShares = -1
    /\ dUserServers = -1
    /\ dFileServerAddr = NoAddr
    /\ dServer = NoSup
    /\ dAddr = NoAddr
    /\ dStartSeq = 0
    /\ dConns = 0
    /\ dVia = ""
    /\ dErr = ""

ReqReset ==
    /\ rpc' = "idle"
    /\ rMethod' = ""
    /\ rShare' = <<>>
    /\ rPerms' = NoPolicy
    /\ rChildrenMap' = -1
    /\ rHanded' = {}
    /\ rResp' = ""
    /\ rAccSeq' = 0
    /\ dThrough' = NoChild
    /\ dShareAddr' = <<>>
    /\ dName' = <<>>
    /\ dShares' = -1
    /\ dUserServers' = -1
    /\ dFileServerAddr' = NoAddr
    /\ dServer' = NoSup
    /\ dAddr' = NoAddr
    /\ dStartSeq' = 0
    /\ dConns' = 0
    /\ dVia' = ""
    /\ dErr' = ""

\* ServeHTTPWithPerms has returned; the handling task takes the next request
ServeReturn ==
    /\ rpc = "done"
    /\ ReqReset
    /\ UNCHANGED <<fsVars, callVars, supVars>>

\* ------------------------------------------------------- specifications

\* NewFileSystemForRemote (lines 33-44): empty children and userServers maps, a
\* nil share map, no file server address
Init ==
    /\ allowShareAs \in BOOLEAN
    /\ uid0 \in BOOLEAN
    /\ sudoers \in SUBSET Owners
    /\ mu = [w |-> 0, r |-> {}]
    /\ fileServerAddr = NoAddr
    /\ shares = 0
    /\ children = 0
    /\ userServers = 0
    /\ nextCall = 1
    /\ callKind = [k \in CallIds |-> "none"]
    /\ callShares = [k \in CallIds |-> EmptyShares]
    /\ cpc = [k \in CallIds |-> "idle"]
    /\ oldUserServers = [k \in CallIds |-> -1]
    /\ oldChildren = [k \in CallIds |-> -1]
    /\ toStop = [k \in CallIds |-> {}]
    /\ stopping = [k \in CallIds |-> <<NoSup, 0>>]
    /\ installSeq = 0
    /\ installedAt = [k \in CallIds |-> 0]
    /\ idleClosed = {}
    /\ stopErrors = {}
    /\ upc = [u \in Sups |-> "none"]
    /\ closed = [u \in Sups |-> FALSE]
    /\ cmd = [u \in Sups |-> 0]
    /\ addr = [u \in Sups |-> NoAddr]
    /\ procs = [u \in Sups |-> <<>>]
    /\ launched = [u \in Sups |-> <<>>]
    /\ supShares = [u \in Sups |-> <<>>]
    /\ consecutiveFailures = [u \in Sups |-> 0]
    /\ timeSinceLastFailure = [u \in Sups |-> 0]
    /\ ReqInit

\* no SetShares or Close call is running: by its contract FileSystemForRemote is
\* reconfigured by one caller at a time
NoCallRunning == \A k \in CallIds : cpc[k] \in {"idle", "done"}

Reconfigure(maps) ==
    \/ \E k \in CallIds, m \in maps, ok \in BOOLEAN :
          NoCallRunning /\ SetSharesBuild(k, m, ok)
    \/ \E k \in CallIds : SetSharesLock(k)
    \/ \E k \in CallIds : SetSharesAssign(k)
    \/ \E k \in CallIds : SetSharesInstall(k)
    \/ \E k \in CallIds : NoCallRunning /\ CloseLock(k)
    \/ \E k \in CallIds : CloseInstall(k)
    \/ \E k \in CallIds : CloseChildren(k)

StopUserServers ==
    \/ \E k \in CallIds, u \in Sups : UserServerCloseMark(k, u)
    \/ \E k \in CallIds, err \in BOOLEAN : UserServerCloseKill(k, err)

\* failures far apart: the time between two failures of a userServer is beyond
\* what a Duration holds
FarApart == {Saturated}

Supervise(kinds, starts) ==
    \/ \E u \in Sups : RunLoopCheck(u)
    \/ \E u \in Sups : RunFail(u)
    \/ \E u \in Sups : Len(procs[u]) < starts /\ RunStart(u)
    \/ \E u \in Sups : RunSetCmd(u)
    \/ \E u \in Sups : RunScanError(u)
    \/ \E u \in Sups : \E line \in ChildAddrs(u, Len(procs[u])) :
          line[1] \in kinds /\ RunPublish(u, line)
    \/ \E u \in Sups : RunPublishEOF(u)
    \/ \E u \in Sups : RunWait(u)
    \/ \E u \in Sups, since \in FarApart : RunLoopSleep(u, since)
    \/ \E u \in Sups, n \in 1 .. MaxRuns : ChildExit(u, n)

Serve(methods, names, policies) ==
    \/ \E method \in methods, share \in names, perms \in policies :
          Accept(method, share, perms)
    \/ ServeRLock
    \/ ServeReadChildren
    \/ ServeDispatch
    \/ DialRLock
    \/ DialRead
    \/ DialResolve
    \/ \E up \in BOOLEAN : DialConnect(up)
    \/ \E up \in BOOLEAN : ServeComplete(up)
    \/ ServeReturn

\* no share, and one share
OneShareMaps == {m \in ShareMaps : \A n \in DOMAIN m : n = NameA /\ m[n] = "alice"}

\* no share, one share, and two shares of two owners
GrowingMaps == {m \in ShareMaps : \A n \in DOMAIN m :
                   /\ NameA \in DOMAIN m
                   /\ m[NameA] = "alice"
                   /\ n = NameB => m[n] = "bob"}

\* the policy of a principal with full access
FullAccess == [n \in ShareNames |-> PermissionReadWrite]

\* Privilege separation enabled: reconfiguration, the run loops of the
\* userServers and one request-handling task, all running concurrently.
InitShareAs == Init /\ allowShareAs /\ ~uid0 /\ sudoers = Owners

NextShareAs ==
    \/ Reconfigure(OneShareMaps)
    \/ StopUserServers
    \/ Supervise({"tcp", ""}, MaxStarts)
    \/ Serve({"GET"}, {NameA}, {FullAccess})

Spec == InitShareAs /\ [][NextShareAs]_vars

\* the methods of the requests of SpecServe: write methods and others
SomeMethods == {"PUT", "LOCK", "GET", "DELETE"}

\* Privilege separation disabled: requests of every policy under
\* reconfiguration, served by the file server at fileServerAddr.
InitServe == Init /\ ~allowShareAs /\ ~uid0 /\ sudoers = Owners

NextServe ==
    \/ \E a \in FileServerAddrs : a[1] # "unix" /\ SetFileServerAddr(a)
    \/ Reconfigure(GrowingMaps)
    \/ Serve(SomeMethods, ShareNames, Policies)

SpecServe == InitServe /\ [][NextServe]_vars

\* Privilege separation enabled, every share map: SetShares and Close build
\* and replace the userServers, whose run loops launch their children.
NextBuild ==
    \/ Reconfigure(ShareMaps)
    \/ StopUserServers
    \/ \E u \in Sups : RunLoopCheck(u)
    \/ \E u \in Sups : Len(procs[u]) < MaxStarts /\ RunStart(u)
    \/ \E u \in Sups : RunSetCmd(u)
    \/ \E u \in Sups : \E line \in ChildAddrs(u, Len(procs[u])) :
          line[1] = "tcp" /\ RunPublish(u, line)
    \/ \E u \in Sups : RunWait(u)
    \/ \E u \in Sups, since \in FarApart : RunLoopSleep(u, since)

SpecBuild == InitShareAs /\ [][NextBuild]_vars

\* Privilege separation enabled, a single generation: one SetShares call, whose
\* userServer starts and restarts its child under every account and sudo
\* configuration, and one request-handling task.
InitRun == Init /\ allowShareAs /\ sudoers \in {{}, Owners}

NextRun ==
    \/ \E m \in OneShareMaps, ok \in BOOLEAN : SetSharesBuild(1, m, ok)
    \/ SetSharesLock(1)
    \/ SetSharesAssign(1)
    \/ SetSharesInstall(1)
    \/ CloseChildren(1)
    \/ Supervise({"tcp", ""}, MaxRuns)
    \/ Serve({"GET"}, {NameA}, {FullAccess})

SpecRun == InitRun /\ [][NextRun]_vars

\* the times between two failures of a run loop: each delay the loop can
\* sleep (the next run failed at once), the ceiling and its neighbours, and
\* the saturated Duration
Gaps == {2 ^ n : n \in 1 .. 14}
        \cup {maxSleepTime - 1, maxSleepTime, maxSleepTime + 1, Saturated}

\* The run loop of the userServer of one SetShares call, failing and retrying
\* with every timing of its failures.
NextBackoff ==
    \/ \E m \in OneShareMaps, ok \in BOOLEAN : SetSharesBuild(1, m, ok)
    \/ SetSharesLock(1)
    \/ SetSharesAssign(1)
    \/ SetSharesInstall(1)
    \/ CloseChildren(1)
    \/ \E u \in Sups : RunLoopCheck(u)
    \/ \E u \in Sups : RunFail(u)
    \/ \E u \in Sups : RunStart(u)
    \/ \E u \in Sups : RunSetCmd(u)
    \/ \E u \in Sups : RunPublishEOF(u)
    \/ \E u \in Sups : RunWait(u)
    \/ \E u \in Sups, since \in Gaps : RunLoopSleep(u, since)
    \/ \E u \in Sups, n \in 1 .. MaxRuns : ChildExit(u, n)

SpecBackoff == InitShareAs /\ [][NextBackoff]_vars

\* Privilege separation enabled, no request: userServers are started, replaced
\* and closed.  The goroutines of the program keep running: a call that has
\* begun goes on to its end, and a run loop takes its next step whenever it
\* can.  Nothing makes a child process print a line or end.
NextStop ==
    \/ Reconfigure(OneShareMaps)
    \/ StopUserServers
    \/ Supervise({"tcp"}, MaxStarts)

\* the steps of a SetShares or Close call once it has begun
CallSteps(k) ==
    \/ SetSharesLock(k)
    \/ SetSharesAssign(k)
    \/ SetSharesInstall(k)
    \/ CloseInstall(k)
    \/ \E u \in Sups : UserServerCloseMark(k, u)
    \/ \E err \in BOOLEAN : UserServerCloseKill(k, err)
    \/ CloseChildren(k)

\* the steps of the run loop of userServer u that wait for nothing outside the
\* program but the end of a sleep: the check, the launch, the recording of
\* the handle, the return of Wait once the child has ended, the backoff
LoopSteps(u) ==
    \/ RunLoopCheck(u)
    \/ RunFail(u)
    \/ Len(procs[u]) < MaxStarts /\ RunStart(u)
    \/ RunSetCmd(u)
    \/ RunPublishEOF(u)
    \/ RunWait(u)
    \/ \E since \in FarApart : RunLoopSleep(u, since)

FairStop ==
    /\ \A k \in CallIds : WF_vars(CallSteps(k))
    /\ \A u \in Sups : WF_vars(LoopSteps(u))

SpecStop == InitShareAs /\ [][NextStop]_vars /\ FairStop

\* no share, and two shares of two owners
TwoOwnerMaps == {m \in GrowingMaps : DOMAIN m # {NameA}}

\* Privilege separation enabled: one generation of two userServers is replaced
\* by empty ones or closed while its children start, run and end.
NextTeardown ==
    \/ \E k \in CallIds, m \in TwoOwnerMaps, ok \in BOOLEAN :
          /\ NoCallRunning
          /\ DOMAIN m # {} => \A u \in Sups : upc[u] = "none"
          /\ SetSharesBuild(k, m, ok)
    \/ \E k \in CallIds : SetSharesLock(k)
    \/ \E k \in CallIds : SetSharesAssign(k)
    \/ \E k \in CallIds : SetSharesInstall(k)
    \/ \E k \in CallIds : NoCallRunning /\ CloseLock(k)
    \/ \E k \in CallIds : CloseInstall(k)
    \/ \E k \in CallIds : CloseChildren(k)
    \/ StopUserServers
    \/ Supervise({"tcp"}, MaxStarts)

SpecTeardown == InitShareAs /\ [][NextTeardown]_vars

\* ----------------------------------------------------------------- claims

\* the share names of the children map the request read
NamesRead == {c[2] : c \in ChildrenOf(rChildrenMap)}

\* C1: a request for a share for which the policy returns PermissionNone is
\* answered "not found", whether its method is a read or a mutating one and
\* whether or not a share of that name exists.
C1_NoneIsNotFound ==
    (rpc = "done" /\ rPerms[rShare] = PermissionNone) => rResp = "NotFound"

\* a read request for an existing share the principal has no access to was
\* answered "not found"
C1_Witness ==
    /\ rpc = "done"
    /\ rPerms[rShare] = PermissionNone
    /\ ~IsWrite(rMethod)
    /\ rShare \in NamesRead
    /\ rResp = "NotFound"

\* C2: with PermissionReadOnly a request with a mutating method is answered
\* "forbidden", and a request with a read method goes on to the composite
\* handler (it is never answered "forbidden", it reads the children, and the
\* child of its share, when there is one, is handed to the handler).
C2_ReadOnly ==
    (rpc # "idle" /\ rPerms[rShare] = PermissionReadOnly) =>
        /\ IsWrite(rMethod) => (rpc = "done" /\ rResp = "Forbidden")
        /\ ~IsWrite(rMethod) =>
              /\ rResp # "Forbidden"
              /\ rpc = "done" =>
                    /\ rChildrenMap # -1
                    /\ rShare \in NamesRead => rShare \in {c[2] : c \in rHanded}

\* a read request with PermissionReadOnly was served by the backend
C2_Witness ==
    /\ rpc = "done"
    /\ rPerms[rShare] = PermissionReadOnly
    /\ ~IsWrite(rMethod)
    /\ rResp = "Proxied"

\* C3: a mutating request the permission check rejects is answered before the
\* children are read: it takes no lock, is not dispatched and dials nothing.
C3_RejectedNeverDials ==
    (rpc # "idle" /\ IsWrite(rMethod)
        /\ rPerms[rShare] \in {PermissionNone, PermissionReadOnly}) =>
        /\ rpc = "done"
        /\ rResp \in {"NotFound", "Forbidden"}
        /\ rChildrenMap = -1
        /\ dThrough = NoChild
        /\ dShares = -1
        /\ dConns = 0
        /\ mu.r = {}

\* a PUT for an existing share with PermissionReadOnly was rejected
C3_Witness ==
    /\ rpc = "done"
    /\ rMethod = "PUT"
    /\ rPerms[rShare] = PermissionReadOnly
    /\ rShare \in {c[2] : c \in ChildrenOf(children)}
    /\ rResp = "Forbidden"

\* C4: whatever the method, the children handed to the composite handler are
\* exactly the children of the map current when the request read it whose
\* share name the policy does not map to PermissionNone, and they stay so
\* until the request returns.
C4_HandedChildren ==
    [][/\ (rpc = "read" /\ rpc' = "serve") =>
             rHanded' = {c \in ChildrenOf(children) : rPerms[c[2]] # PermissionNone}
       /\ (rpc \in {"serve", "drlock", "dread", "resolve", "connect", "inflight"}) =>
             rHanded' = rHanded]_vars

\* a request was dispatched with one child handed over and another withheld
C4_Witness ==
    /\ rpc = "serve"
    /\ rHanded # {}
    /\ rHanded # ChildrenOf(rChildrenMap)
    /\ \E c \in rHanded : rPerms[c[2]] = PermissionReadOnly

\* the position of the installation of the maps a reference denotes (0 for
\* the maps of NewFileSystemForRemote)
Order(ref) == IF ref <= 0 THEN 0 ELSE installedAt[ref]

\* C5: a dial consults the share map current when it takes the read lock, so a
\* dial for a share name absent from that map fails as an unknown share and
\* connects to nothing, also when it is issued through a child built for an
\* earlier configuration.
C5_UnknownShareFails ==
    /\ [][(rpc = "dread" /\ rpc' = "resolve") => dShares' = shares]_vars
    /\ []((dShares # -1 /\ rpc # "resolve" /\ dName \notin DOMAIN SharesOf(dShares)) =>
            (rpc = "done" /\ dErr = "unknown share" /\ dConns = 0
               /\ rResp = "BadGateway"))

\* a dial through a child of an earlier configuration failed on a share name
\* that the configuration installed since does not have
C5_Witness ==
    /\ rpc = "done"
    /\ dErr = "unknown share"
    /\ dName \in DOMAIN SharesOf(dThrough[1])
    /\ Order(dShares) > Order(dThrough[1])

\* C6: the userServer whose address a dial takes belongs to the userServers
\* map the dial read, which was installed no earlier than the one current
\* when the dial was entered: never a userServer replaced before the dial.
C6_AddressFromCurrentServers ==
    dServer # NoSup =>
        /\ dServer \in UserServersOf(dUserServers)
        /\ Order(dServer[1]) >= dStartSeq
        /\ Order(dServer[1]) >= rAccSeq

\* a dial through a child of a replaced generation took the address of a
\* userServer of a later one
C6_Witness ==
    /\ rpc = "connect"
    /\ dServer # NoSup
    /\ dAddr # NoAddr
    /\ Order(dServer[1]) > Order(dThrough[1])

\* C7: whenever the generation lock is not write-held, the share map, the
\* userServers map and the children map were installed by one call.
C7_OneInstaller ==
    mu.w = 0 => (shares = children /\ children = userServers)

\* C8 as stated, for SetShares running concurrently with the request (no
\* Close call): the children map of a request and the share map and
\* userServers map of its dial belong to one generation, not older than the
\* one installed last before the request was accepted.
C8_OneGeneration ==
    (dShares # -1 /\ \A k \in CallIds : callKind[k] # "Close") =>
        /\ rChildrenMap = dShares
        /\ dShares = dUserServers
        /\ Order(rChildrenMap) >= rAccSeq

\* C8 amended: the children map a request reads is not older than the
\* generation installed last before the request was accepted; the userServers
\* map its dial reads is that generation's or a later one's; and the share map
\* the dial reads is that of the latest SetShares installed up to then.
C8_OrderedReads ==
    /\ rChildrenMap # -1 => Order(rChildrenMap) >= rAccSeq
    /\ dUserServers # -1 =>
          /\ Order(dUserServers) >= Order(rChildrenMap)
          /\ Order(dShares) <= Order(dUserServers)
          /\ \A k \in CallIds :
                (callKind[k] = "SetShares" /\ installedAt[k] > 0
                    /\ installedAt[k] <= Order(dUserServers)) =>
                installedAt[k] <= Order(dShares)

\* a dial read the maps of a later generation than the one whose children the
\* request had read
C8_Witness ==
    /\ dUserServers # -1
    /\ Order(dUserServers) > Order(rChildrenMap)
    /\ Order(dShares) > Order(rChildrenMap)

\* C9: stopUserServers and closeChildren run on the previous generation after
\* the call has installed its own; no userServer of the installed userServers
\* map is closed, and the installed children never had their idle connections
\* closed.
C9_TeardownAfterInstall ==
    /\ \A u \in UserServersOf(userServers) : ~closed[u]
    /\ children \notin idleClosed
    /\ \A k \in CallIds :
          cpc[k] \in {"stop", "kill"} =>
              (installedAt[k] > 0 /\ oldUserServers[k] # userServers)

\* a userServer of a replaced generation is closed while the installed
\* generation has a userServer
C9_Witness ==
    /\ \E u \in Sups : closed[u]
    /\ UserServersOf(userServers) # {}

\* a child of userServer u, alive before the step, is killed by it
Killed(u) ==
    \E n \in 1 .. Len(procs[u]) : procs[u][n] = "alive" /\ procs'[u][n] = "killed"

OwnerOfChild(c) == callShares[c[1]][c[2]]

\* the owners that are keys of the installed userServers map
CurrentOwners == {u[2] : u \in UserServersOf(userServers)}

\* C11: while no SetShares or Close call is running, the owner of every share
\* of the current share map and of every child of the current children map is
\* a key of the current userServers map.
C11_OwnersHaveServers ==
    NoCallRunning =>
        /\ \A n \in DOMAIN SharesOf(shares) : SharesOf(shares)[n] \in CurrentOwners
        /\ \A c \in ChildrenOf(children) : OwnerOfChild(c) \in CurrentOwners

\* the call that installed last
LastInstalled(k) == installedAt[k] > 0 /\ installedAt[k] = installSeq

\* C12: once Close has returned, and until the next installation, the share
\* map, the userServers map and the children map are empty, every userServer
\* of the generation it replaced is closed, and a dial that reads the maps
\* fails as an unknown share.
C12_CloseInstallsEmpty ==
    \A k \in CallIds :
        (callKind[k] = "Close" /\ cpc[k] = "done" /\ LastInstalled(k)) =>
            /\ DOMAIN SharesOf(shares) = {}
            /\ UserServersOf(userServers) = {}
            /\ ChildrenOf(children) = {}
            /\ \A j \in CallIds :
                  installedAt[j] = installedAt[k] - 1 =>
                      \A u \in UserServersOf(j) : closed[u]
            /\ (rpc = "done" /\ dUserServers = k) => dErr = "unknown share"

\* the shares of owner o in the map passed to call k
SharesOwnedBy(k, o) == {n \in DOMAIN callShares[k] : callShares[k][n] = o}

\* the elements of a sequence
Range(seq) == {seq[i] : i \in DOMAIN seq}

\* C13: the userServers a SetShares call builds are one per owner that occurs
\* in its share map; the share list of each holds exactly the shares of its
\* owner, each once; and every child it launches is given "serve-tailfs"
\* followed by one name and path pair per share of the list.
C13_OneServerPerOwner ==
    \A k \in CallIds, o \in Owners :
        LET u == <<k, o>>
        IN /\ (upc[u] # "none") <=> (callKind[k] = "SetShares" /\ SharesOwnedBy(k, o) # {})
           /\ (upc[u] # "none") <=> (u \in UserServersOf(k))
           /\ upc[u] # "none" =>
                 /\ Range(supShares[u]) = SharesOwnedBy(k, o)
                 /\ Len(supShares[u]) = Cardinality(SharesOwnedBy(k, o))
                 /\ SharesOfServer(u) = SharesOwnedBy(k, o)
           /\ \A i \in DOMAIN launched[u] :
                 LET args == launched[u][i].args
                 IN /\ Len(args) = 1 + 2 * Len(supShares[u])
                    /\ args[1] = "serve-tailfs"
                    /\ \A j \in DOMAIN supShares[u] :
                          /\ args[2 * j] = supShares[u][j]
                          /\ args[2 * j + 1] = SharePath(supShares[u][j])

\* the userServer of an owner of two shares has launched its child
C13_Witness ==
    \E u \in Sups :
        /\ Len(supShares[u]) = 2
        /\ launched[u] # <<>>
        /\ Len(launched[u][1].args) = 5

\* the child processes of owner o that are alive
AliveChildren(o) ==
    {<<u, n>> \in Sups \X (1 .. MaxRuns) :
        u[2] = o /\ n <= Len(procs[u]) /\ procs[u][n] = "alive"}

\* C14: no two child processes of one owner are alive at once.
C14_OneChildPerOwner ==
    \A o \in Owners : Cardinality(AliveChildren(o)) <= 1

\* C15: when canSudo fails and the account of the process has UID 0, run
\* returns an error without starting a child and without changing the address;
\* no child ever runs as the super-user, so no address comes from one.
C15_NeverAsRoot ==
    /\ [][\A u \in Sups :
            (upc[u] = "run" /\ upc'[u] # "run" /\ ~canSudo(u) /\ uid0) =>
                /\ upc'[u] = "sleep"
                /\ procs'[u] = procs[u]
                /\ cmd'[u] = cmd[u]
                /\ addr'[u] = addr[u]]_vars
    /\ [](\A u \in Sups :
            /\ \A i \in DOMAIN launched[u] : launched[u][i].user # "root"
            /\ (~canSudo(u) /\ uid0) => (procs[u] = <<>> /\ addr[u] = NoAddr))

\* as the super-user without sudo, run has returned its error and a dial for
\* the share has failed for want of an address
C15_Witness ==
    /\ uid0
    /\ \E u \in Sups :
          /\ ~canSudo(u)
          /\ upc[u] = "sleep"
          /\ procs[u] = <<>>
          /\ rpc = "done"
          /\ dServer = u
          /\ dErr = "no address"

\* the account is not the super-user and sudo works for no owner
NoElevation == ~uid0 /\ sudoers = {}

C17_AddrKeptOnFailure ==
    [][\A u \in Sups :
          (upc[u] = "scan" /\ procs[u][Len(procs[u])] # "alive") =>
              addr'[u] = addr[u]]_vars

\* the userServer of the owner of the share a dial is about to resolve
ResolvingServer == LookupUserServer(dUserServers, SharesOf(dShares)[dName])

\* C18 as stated: a dial that resolves the address of a share while the
\* userServer of its owner has no live child fails for want of an address and
\* attempts no connection.
C18_NoChildNoAddress ==
    [][(/\ rpc = "resolve"
        /\ rpc' # "resolve"
        /\ ShareFound(dShares, dName)
        /\ ResolvingServer # NoSup
        /\ \A n \in DOMAIN procs[ResolvingServer] : procs[ResolvingServer][n] # "alive") =>
            (rpc' = "done" /\ dErr' = "no address" /\ dConns' = 0)]_vars

\* C19: a dial whose share name is not a key of the share map current when it
\* reads it fails as an unknown share and attempts no connection, whether or
\* not an address is there to dial.
C19_UnknownShareNoConnection ==
    /\ [][(rpc = "dread" /\ rpc' # "dread") =>
             (ShareFound(dShares', dName) <=> dName \in DOMAIN SharesOf(shares))]_vars
    /\ [][(rpc = "resolve" /\ rpc' # "resolve"
               /\ dName \notin DOMAIN SharesOf(dShares)) =>
             /\ rpc' = "done"
             /\ dErr' = "unknown share"
             /\ rResp' = "BadGateway"
             /\ dConns' = 0
             /\ dAddr' = NoAddr]_vars

\* a dial failed as an unknown share although the file server address it read
\* was set
C19_Witness ==
    /\ rpc = "done"
    /\ dErr = "unknown share"
    /\ dFileServerAddr # NoAddr
    /\ dConns = 0

\* C20: without privilege separation no userServer is ever created or run, and
\* a dial for a known share takes the file server address it read under the
\* lock, the one set last by SetFileServerAddr, from no userServer; it fails
\* when that address is empty and dials it otherwise.
C20_FileServerAddr ==
    /\ [](\A u \in Sups : upc[u] = "none" /\ supShares[u] = <<>>)
    /\ [](\A k \in Refs : UserServersOf(k) = {})
    /\ [][(rpc = "dread" /\ rpc' # "dread") => dFileServerAddr' = fileServerAddr]_vars
    /\ [][(rpc = "resolve" /\ rpc' # "resolve" /\ ShareFound(dShares, dName)) =>
             /\ dServer' = NoSup
             /\ dAddr' = dFileServerAddr
             /\ dFileServerAddr = NoAddr =>
                   (rpc' = "done" /\ dErr' = "no address" /\ dConns' = 0)
             /\ dFileServerAddr # NoAddr => rpc' = "connect"]_vars

\* a request is in flight to the file server while shares are installed
C20_Witness ==
    /\ rpc = "inflight"
    /\ dAddr = fileServerAddr
    /\ dAddr[2] = FileServerListener
    /\ DOMAIN SharesOf(shares) # {}
    /\ UserServersOf(userServers) = {}

\* the run loop of userServer u computes and sleeps its delay in this step
Backoff(u) == upc[u] = "sleep" /\ upc'[u] = "loop"

\* C21 as stated, for a userServer whose run fails at once every time (each
\* failure comes the slept delay after the previous one): the delay never
\* drops, and stays at the ceiling once it has reached it.
C21_DelayNeverDrops ==
    [][\A u \in Sups :
          (/\ Backoff(u)
           /\ consecutiveFailures[u] > 0
           /\ timeSinceLastFailure'[u] = SleepTime(consecutiveFailures[u])) =>
              SleepTime(consecutiveFailures'[u]) >= SleepTime(consecutiveFailures[u])]_vars

\* C27: the failure counter becomes 1 on the first failure and when the time
\* since the previous failure is at least maxSleepTime, and is incremented
\* otherwise; the delay for counter n is 2^n ms, or maxSleepTime when that is
\* more, so it never exceeds maxSleepTime.
C27_CounterAndDelay ==
    /\ [][\A u \in Sups :
            Backoff(u) =>
                LET n == consecutiveFailures[u]
                    since == timeSinceLastFailure'[u]
                    after == consecutiveFailures'[u]
                IN /\ (n = 0 \/ since >= maxSleepTime) => after = 1
                   /\ (n > 0 /\ since < maxSleepTime) => after = n + 1
                   /\ SleepTime(after) <= maxSleepTime
                   /\ 2 ^ after <= maxSleepTime => SleepTime(after) = 2 ^ after
                   /\ 2 ^ after > maxSleepTime => SleepTime(after) = maxSleepTime]_vars
    /\ [](\A u \in Sups : consecutiveFailures[u] \in 0 .. 15)

\* a failure exactly maxSleepTime after the previous one has reset the counter
C27_Witness ==
    \E u \in Sups :
        /\ upc[u] = "loop"
        /\ consecutiveFailures[u] = 1
        /\ timeSinceLastFailure[u] = maxSleepTime

\* C22 as stated: once the closed flag of a userServer is set its run loop
\* starts no further child process.
C22_NoStartOnceClosed ==
    [][\A u \in Sups : closed[u] => Len(procs'[u]) = Len(procs[u])]_vars

\* userServer u has a live child
HasLiveChild(u) == \E n \in DOMAIN procs[u] : procs[u][n] = "alive"

\* C23 as stated: after Close of a userServer, eventually it has no live child
\* and its run loop has returned.
C23_ClosedEndsAll ==
    \A u \in Sups : [](closed[u] => <>(~HasLiveChild(u) /\ upc[u] = "returned"))

\* C24: a run loop returns only when its userServer is closed, and whenever run
\* has returned the loop sleeps and then calls run again, unless the userServer
\* has been closed.
C24_NeverGivesUp ==
    /\ [](\A u \in Sups : upc[u] = "returned" => closed[u])
    /\ \A u \in Sups : [](upc[u] = "sleep" => <>(upc[u] = "run" \/ closed[u]))

\* a userServer that is not closed is in run again after a failure
C24_Witness ==
    \E u \in Sups :
        /\ upc[u] = "run"
        /\ ~closed[u]
        /\ consecutiveFailures[u] > 0

\* share names of up to MaxNameLen bytes
SomeBytes == {0, 47, 97, 98, 255}
WideNames == UNION {[1 .. n -> SomeBytes] : n \in 0 .. MaxNameLen}

\* addresses of up to MaxAddrLen characters, well-formed or not
SomeChars == {"6", "2", "A", "g", ":", "["}
ShortAddrs == UNION {[1 .. n -> SomeChars] : n \in 0 .. MaxAddrLen}

\* the addresses Dial is called with: those of the hosts of every name, and
\* short ones of any form
HostAddrs == {TransportAddr(BaseURLHost(n)) : n \in WideNames} \cup ShortAddrs

\* Privilege separation disabled: requests dispatched to their child, and Dial
\* of that child called with every address, under reconfiguration.
NextHost ==
    \/ \E a \in FileServerAddrs : a[1] = "tcp" /\ SetFileServerAddr(a)
    \/ Reconfigure(OneShareMaps)
    \/ Serve({"GET"}, {NameA}, {FullAccess})
    \/ \E a \in HostAddrs : DialWith(a)

SpecHost == InitServe /\ [][NextHost]_vars

\* address a is a host and a port, and the host has an odd number of
\* characters or a character that is no hex digit
OddOrNoHexHost(a) ==
    /\ Cardinality(Positions(a, ":")) = 1
    /\ Positions(a, "[") = {}
    /\ \E i \in Positions(a, ":") :
          \/ (i - 1) % 2 = 1
          \/ \E j \in Positions(a, "g") : j < i

\* C30: the host buildChild gives a child decodes to the name of its share,
\* so the dial the child's transport issues looks up that name; a dial with an
\* address that does not split or a host that does not decode fails before it
\* takes the lock or reads anything.
C30_HostReversible ==
    /\ \A n \in WideNames :
          /\ DecodeString(BaseURLHost(n)) = [ok |-> TRUE, bytes |-> n]
          /\ ParseShareAddr(TransportAddr(BaseURLHost(n))) =
                 [ok |-> TRUE, err |-> "", bytes |-> n]
    /\ (dThrough # NoChild /\ dShareAddr = TransportAddr(BaseURLHost(dThrough[2]))) =>
          /\ dName = dThrough[2]
          /\ dErr \notin {"parse", "decode"}
    /\ (dThrough # NoChild /\ Positions(dShareAddr, ":") = {}) => dErr = "parse"
    /\ (dThrough # NoChild /\ OddOrNoHexHost(dShareAddr)) => dErr = "decode"
    /\ dErr \in {"parse", "decode"} =>
          /\ rpc = "done"
          /\ rResp = "BadGateway"
          /\ dShares = -1
          /\ dUserServers = -1
          /\ dFileServerAddr = NoAddr
          /\ dServer = NoSup
          /\ dConns = 0
          /\ "dial" \notin mu.r

\* the dial the transport of the child of share NameA issued decoded NameA and
\* found it in the share map
C30_Witness ==
    /\ rpc = "resolve"
    /\ dThrough # NoChild
    /\ dThrough[2] = NameA
    /\ dShareAddr = TransportAddr(BaseURLHost(NameA))
    /\ dName = NameA
    /\ ShareFound(dShares, dName)

\* the generation call k replaced: the reference installed just before its own
Replaced(k) ==
    IF installedAt[k] <= 1 THEN 0
    ELSE CHOOSE j \in CallIds : installedAt[j] = installedAt[k] - 1

\* C25: whether or not Close of a userServer returned an error, stopUserServers
\* goes on to every other userServer of the replaced generation, the idle
\* connections of the replaced children are released, and the generation the
\* call installed stays installed.
C25_TeardownDespiteError ==
    \A k \in CallIds :
        /\ cpc[k] \in {"stop", "kill"} =>
              /\ oldUserServers[k] = Replaced(k)
              /\ \A u \in UserServersOf(Replaced(k)) : closed[u] \/ u \in toStop[k]
              /\ LastInstalled(k) => userServers = k /\ children = k
        /\ (cpc[k] = "done" /\ installedAt[k] > 0) =>
              /\ \A u \in UserServersOf(Replaced(k)) : closed[u]
              /\ Replaced(k) \in idleClosed
              /\ LastInstalled(k) => userServers = k /\ children = k

\* a call has returned after Close of one of the two userServers it replaced
\* returned an error
C25_Witness ==
    \E k \in CallIds :
        /\ cpc[k] = "done"
        /\ installedAt[k] > 0
        /\ Cardinality(UserServersOf(Replaced(k))) = 2
        /\ stopErrors \cap UserServersOf(Replaced(k)) # {}
        /\ \A u \in UserServersOf(Replaced(k)) : closed[u]

\* a step of the run loop of userServer u or the end of one of its children
SupervisorStep(u) ==
    /\ upc[u] # "none"
    /\ \/ upc'[u] # upc[u]
       \/ \E n \in DOMAIN procs[u] : procs[u][n] = "alive" /\ procs'[u][n] = "exited"

\* C26: a step of one userServer's run loop (a launch failure, a child that
\* ends, a backoff) changes neither cmd, addr or closed of any other userServer
\* nor shares, userServers, children or fileServerAddr.
C26_SupervisorsIndependent ==
    [][\A u \in Sups :
          SupervisorStep(u) =>
              /\ \A v \in Sups \ {u} :
                    /\ cmd'[v] = cmd[v]
                    /\ addr'[v] = addr[v]
                    /\ closed'[v] = closed[v]
              /\ UNCHANGED <<shares, userServers, children, fileServerAddr>>]_vars

\* a userServer of the current generation has lost its child and backed off
\* while the other one still has its child and its address
C26_Witness ==
    \E u, v \in UserServersOf(userServers) :
        /\ u # v
        /\ consecutiveFailures[u] > 0
        /\ upc[u] = "loop"
        /\ addr[u] = NoAddr
        /\ \E n \in DOMAIN procs[u] : procs[u][n] = "exited"
        /\ HasLiveChild(v)
        /\ cmd[v] # 0
        /\ addr[v] # NoAddr
        /\ ~closed[v]

\* C28: the run loop of a userServer is started once, by the SetShares call that
\* created it, in the same step as the run loops of all the userServers of
\* that call and before the call installs its generation; nothing else starts
\* a run loop.
C28_LoopsStartedBySetShares ==
    /\ [](\A u \in Sups :
            upc[u] # "none" <=> (cpc[u[1]] # "idle" /\ u \in UserServersOf(u[1])))
    /\ [][\A u \in Sups :
            /\ upc[u] # "none" => upc'[u] # "none"
            /\ (upc[u] = "none" /\ upc'[u] # "none") =>
                  /\ upc'[u] = "loop"
                  /\ cpc[u[1]] = "idle" /\ cpc'[u[1]] = "lock"
                  /\ installedAt'[u[1]] = 0
                  /\ userServers' = userServers /\ userServers # u[1]
                  /\ \A v \in Sups :
                        upc'[v] # upc[v] =>
                            /\ v[1] = u[1]
                            /\ upc[v] = "none" /\ upc'[v] = "loop"]_vars

\* the two userServers of a call both have a child running before the call
\* has installed its generation, while a child of the generation still
\* installed is running
C28_Witness ==
    \E k \in CallIds :
        /\ cpc[k] = "lock"
        /\ installedAt[k] = 0
        /\ Cardinality(UserServersOf(k)) = 2
        /\ \A u \in UserServersOf(k) : HasLiveChild(u)
        /\ userServers # k
        /\ \E v \in UserServersOf(userServers) : HasLiveChild(v)

\* C29: a call holds the write lock of mu only between taking it and the
\* assignment of the new references, a request holds a read lock only while it
\* copies the references out; whoever kills a child, connects to a backend or
\* dispatches to the composite handler does not hold mu.
C29_LockOnlyForReferences ==
    /\ \A k \in CallIds : mu.w = k <=> cpc[k] \in {"assign", "install"}
    /\ mu.w # 0 => mu.r = {}
    /\ "serve" \in mu.r <=> rpc = "read"
    /\ "dial" \in mu.r <=> rpc = "dread"
    /\ mu.r \subseteq {"serve", "dial"}
    /\ \A k \in CallIds : cpc[k] \in {"stop", "kill"} => mu.w # k
    /\ rpc \in {"serve", "resolve", "connect", "inflight"} => mu.r = {}

\* a call is about to kill a child and the request is about to connect, and
\* nobody holds mu
C29_Witness ==
    \E k \in CallIds :
        /\ cpc[k] = "kill"
        /\ stopping[k][2] # 0
        /\ rpc = "connect"
        /\ mu.w = 0
        /\ mu.r = {}

\* Privilege separation disabled: requests for a share served by the file
\* server, whose address is a network address, a socket path or unset.
NextDial ==
    \/ \E a \in FileServerAddrs : SetFileServerAddr(a)
    \/ Reconfigure(OneShareMaps)
    \/ Serve({"GET"}, {NameA}, {FullAccess})

SpecDial == InitServe /\ [][NextDial]_vars

\* C31: a dial that obtained an address makes one connection attempt, with tcp
\* when the address is an IP address and a port and with safesocket
\* otherwise; when the attempt fails the dial fails without another attempt.
C31_OneAttempt ==
    /\ dConns \in {0, 1}
    /\ dConns = 1 <=> dVia # ""
    /\ dConns = 1 <=> (rpc = "inflight" \/ (rpc = "done" /\ dAddr # NoAddr))
    /\ rpc = "connect" => dAddr # NoAddr /\ dConns = 0
    /\ dErr = "connect" => dConns = 1 /\ rpc = "done"
    /\ (dConns = 1 /\ dAddr[1] = "tcp") => dVia = "tcp"
    /\ (dConns = 1 /\ dAddr[1] = "unix") => dVia = "safesocket"

\* a dial to a socket path failed after its one attempt with safesocket
C31_Witness ==
    /\ rpc = "done"
    /\ dErr = "connect"
    /\ dAddr[1] = "unix"
    /\ dVia = "safesocket"
    /\ dConns = 1

\* a step of ServeHTTPWithPerms or of the Dial it leads to
RequestStep == reqVars' # reqVars \/ dialVars' # dialVars

\* C32: no step of a request or of its dial, whatever its outcome, changes
\* shares, userServers, children or fileServerAddr, or cmd, addr or closed of
\* any userServer.
C32_RequestsChangeNothing ==
    [][RequestStep =>
          UNCHANGED <<shares, userServers, children, fileServerAddr, cmd, addr, closed>>]_vars

\* a dial has failed to connect to the address of a userServer, which still
\* has that address
C32_Witness ==
    /\ rpc = "done"
    /\ dErr = "connect"
    /\ dServer # NoSup
    /\ dAddr # NoAddr
    /\ addr[dServer] = dAddr
    /\ userServers = dUserServers

\* the WebDAV methods that modify the contents of a share
ContentModifying == writeMethods \cup {"DELETE"}

\* C33 as stated: a request of a content-modifying method, DELETE included,
\* for a share the principal has PermissionReadOnly on is never dispatched to
\* a child, so the backend never answers it.
C33_ReadOnlyNeverModifies ==
    (rpc # "idle" /\ rMethod \in ContentModifying
        /\ rPerms[rShare] = PermissionReadOnly) =>
        /\ dThrough = NoChild
        /\ rResp # "Proxied"

\* Privilege separation enabled: SetShares and Close calls that run at the
\* same time, with the children of their userServers.
NextConcurrent ==
    \/ \E k \in CallIds, m \in OneShareMaps, ok \in BOOLEAN : SetSharesBuild(k, m, ok)
    \/ \E k \in CallIds : SetSharesLock(k)
    \/ \E k \in CallIds : SetSharesAssign(k)
    \/ \E k \in CallIds : SetSharesInstall(k)
    \/ \E k \in CallIds : CloseLock(k)
    \/ \E k \in CallIds : CloseInstall(k)
    \/ \E k \in CallIds : CloseChildren(k)
    \/ StopUserServers
    \/ Supervise({"tcp"}, MaxStarts)

SpecConcurrent == InitShareAs /\ [][NextConcurrent]_vars

\* the calls that have userServer u still to close or are closing it
Closers(u) == {k \in CallIds : u \in toStop[k] \/ stopping[k][1] = u}

\* C34: with SetShares and Close calls running at the same time, a userServer
\* whose generation was installed and replaced is closed, or is about to be
\* closed by the one call whose installation replaced it; Close is called on
\* a userServer once, by that call, and the call returns only when every
\* userServer it replaced is closed.
C34_NoSupervisorLeaked ==
    /\ [](\A u \in Sups :
            (upc[u] # "none" /\ installedAt[u[1]] > 0 /\ userServers # u[1]) =>
                \/ closed[u] /\ Closers(u) \subseteq {k \in CallIds : stopping[k][1] = u}
                \/ /\ ~closed[u]
                   /\ \E k \in CallIds :
                         /\ Closers(u) = {k}
                         /\ installedAt[k] = installedAt[u[1]] + 1)
    /\ [](\A k \in CallIds :
            (cpc[k] = "done" /\ installedAt[k] > 0) =>
                \A u \in UserServersOf(Replaced(k)) : closed[u])
    /\ [][\A u \in Sups :
            (~closed[u] /\ closed'[u]) =>
                /\ userServers # u[1]
                /\ \E k \in CallIds :
                      /\ Closers(u) = {k}
                      /\ u \in UserServersOf(Replaced(k))
                      /\ stopping'[k][1] = u]_vars
    /\ [][\A u \in Sups, k \in CallIds :
            (stopping[k][1] # u /\ stopping'[k][1] = u) => ~closed[u]]_vars

\* two calls are tearing down at the same time: the second has closed the
\* userServer of the first while the first is still stopping those it replaced
C34_Witness ==
    \E j, k \in CallIds, u \in Sups :
        /\ j # k
        /\ u[1] = j
        /\ closed[u]
        /\ u \in UserServersOf(Replaced(k))
        /\ cpc[j] \in {"stop", "kill"}
        /\ cpc[k] \in {"stop", "kill", "done"}

\* Privilege separation enabled: a SetShares call and a Close call, the run
\* loop of the userServer and requests with their dials, all taking their
\* locks.
NextLocks ==
    \/ \E m \in OneShareMaps : DOMAIN m # {} /\ SetSharesBuild(1, m, TRUE)
    \/ \E k \in CallIds : SetSharesLock(k)
    \/ \E k \in CallIds : SetSharesAssign(k)
    \/ \E k \in CallIds : SetSharesInstall(k)
    \/ \E k \in CallIds : k > 1 /\ NoCallRunning /\ CloseLock(k)
    \/ \E k \in CallIds : CloseInstall(k)
    \/ \E k \in CallIds : CloseChildren(k)
    \/ StopUserServers
    \/ Supervise({"tcp"}, MaxStarts)
    \/ Serve({"GET"}, {NameA}, {FullAccess})

\* the steps in which a request takes mu for reading and releases it
ReadLockSteps == ServeRLock \/ ServeReadChildren \/ DialRLock \/ DialRead

\* every goroutine goes on when it can, and a call that waits for mu gets it
\* when it is free again and again (a sync.RWMutex writer that waits keeps new
\* readers out)
FairLocks ==
    /\ \A k \in CallIds : WF_vars(CallSteps(k)) /\ SF_vars(SetSharesLock(k))
    /\ \A u \in Sups : WF_vars(LoopSteps(u))
    /\ WF_vars(ReadLockSteps)

SpecLocks == InitShareAs /\ [][NextLocks]_vars /\ FairLocks

\* the userServers whose cmd, addr or closed this step reads or writes under
\* their own lock
LockedServers ==
    {u \in Sups :
        \/ <<cmd[u], addr[u], closed[u]>> # <<cmd'[u], addr'[u], closed'[u]>>
        \/ upc[u] = "loop" /\ upc'[u] # "loop"
        \/ rpc = "resolve" /\ rpc' # "resolve" /\ dServer' = u}

\* C35: a step that takes the lock of a userServer takes that of one
\* userServer only and is made by a goroutine that does not hold mu, and
\* nothing is waited for while mu is held; so whoever waits for mu or for the
\* lock of a userServer gets it.
C35_NoDeadlock ==
    /\ [][/\ Cardinality(LockedServers) <= 1
          /\ LockedServers # {} =>
                /\ rpc = "resolve" /\ rpc' # "resolve" => mu.r = {}
                /\ \A k \in CallIds : cpc'[k] # cpc[k] => mu.w # k /\ mu'.w # k]_vars
    /\ [](\A k \in CallIds : mu.w = k => cpc[k] \in {"assign", "install"})
    /\ [](mu.r # {} => rpc \in {"read", "dread"})
    /\ \A k \in CallIds : (cpc[k] = "lock") ~> (cpc[k] = "assign")
    /\ \A k \in CallIds : (cpc[k] = "stop") ~> (cpc[k] = "done")
    /\ (rpc = "rlock") ~> (rpc = "read")
    /\ (rpc = "drlock") ~> (rpc = "dread")
    /\ \A u \in Sups : (upc[u] = "loop") ~> (upc[u] \in {"run", "returned"})

\* a SetShares call waits for mu while a request holds it for reading
C35_Witness ==
    \E k \in CallIds :
        /\ cpc[k] = "lock"
        /\ mu.r # {}
        /\ \E u \in Sups : upc[u] = "loop"

\* C36: a SetShares call that could not determine the executable has returned
\* without installing, creating, starting or stopping anything: the step in
\* which it fails changes nothing but the call itself.
C36_ExecutableErrorChangesNothing ==
    /\ [](\A k \in CallIds :
            callKind[k] = "failed" =>
                /\ cpc[k] = "done"
                /\ installedAt[k] = 0
                /\ toStop[k] = {}
                /\ stopping[k] = <<NoSup, 0>>
                /\ shares # k /\ userServers # k /\ children # k
                /\ \A u \in Sups : u[1] = k => upc[u] = "none" /\ ~closed[u])
    /\ [][\A k \in CallIds :
            (callKind[k] # "failed" /\ callKind'[k] = "failed") =>
                /\ UNCHANGED <<mu, fileServerAddr, shares, children, userServers>>
                /\ UNCHANGED <<installSeq, idleClosed, supVars>>]_vars

\* a SetShares call has failed to determine the executable while the
\* generation installed before it has a userServer with a live child
C36_Witness ==
    \E k \in CallIds, u \in UserServersOf(userServers) :
        /\ callKind[k] = "failed"
        /\ installedAt[u[1]] > 0
        /\ DOMAIN SharesOf(shares) # {}
        /\ HasLiveChild(u)
        /\ ~closed[u]

\* the error and the address a dial for share name through child c comes to
\* when it reads and resolves in this state (lines 133-157)
DialOutcome(c, name) ==
    LET sharesRef == DialShares(c)
        serversRef == DialUserServers(c)
    IN IF ~ShareFound(sharesRef, name) THEN <<"unknown share", NoAddr>>
       ELSE IF DialAddr(sharesRef, serversRef, fileServerAddr, name) = NoAddr
       THEN <<"no address", NoAddr>>
       ELSE <<"", DialAddr(sharesRef, serversRef, fileServerAddr, name)>>

\* the children built so far, of every generation
BuiltChildren == UNION {ChildrenOf(k) : k \in CallIds}

\* C37: in every state a dial for a share name comes to the same address or
\* error through any two children built for that name, whatever their
\* generation; and the dial that runs reads the maps that are current and
\* ends with that outcome.
C37_OutcomeIgnoresChildGeneration ==
    /\ [](\A c1, c2 \in BuiltChildren :
            c1[2] = c2[2] => DialOutcome(c1, c1[2]) = DialOutcome(c2, c2[2]))
    /\ [][(rpc = "dread" /\ rpc' = "resolve") =>
            /\ dShares' = shares
            /\ dUserServers' = userServers
            /\ dFileServerAddr' = fileServerAddr]_vars
    /\ [][(/\ rpc = "resolve" /\ rpc' # "resolve"
           /\ dShares = shares /\ dUserServers = userServers
           /\ dFileServerAddr = fileServerAddr) =>
              /\ <<dErr', dAddr'>> = DialOutcome(dThrough, dName)
              /\ \A c \in BuiltChildren :
                    c[2] = dName => <<dErr', dAddr'>> = DialOutcome(c, dName)]_vars

\* a dial through a child of a replaced generation has obtained the address
\* of the userServer of the current generation
C37_Witness ==
    /\ rpc = "connect"
    /\ dThrough # NoChild
    /\ dThrough[1] # children
    /\ dUserServers = userServers
    /\ dServer \in UserServersOf(userServers)
    /\ dServer[1] # dThrough[1]
    /\ dAddr = addr[dServer]
    /\ dAddr # NoAddr

\* C38: the contents of a share map, userServers map or children map do not
\* change once the map is installed, nor does the share list of a userServer
\* once its run loop is started; so the map a request copied out under the
\* read lock holds what it held then.
C38_SnapshotsImmutable ==
    /\ [][\A k \in CallIds :
            installedAt[k] > 0 =>
                /\ SharesOf(k)' = SharesOf(k)
                /\ UserServersOf(k)' = UserServersOf(k)
                /\ ChildrenOf(k)' = ChildrenOf(k)]_vars
    /\ [][\A u \in Sups : upc[u] # "none" => supShares'[u] = supShares[u]]_vars
    /\ [][(rChildrenMap # -1 /\ rChildrenMap' = rChildrenMap) =>
            ChildrenOf(rChildrenMap)' = ChildrenOf(rChildrenMap)]_vars
    /\ [](rpc \in {"serve", "drlock", "dread", "resolve", "connect", "inflight"} =>
            rHanded = VisibleChildren(ChildrenOf(rChildrenMap), rPerms))

\* a request still has the children map that Close has replaced since, with
\* the child it held when the request copied it out
C38_Witness ==
    /\ rpc = "serve"
    /\ rChildrenMap > 0
    /\ rChildrenMap # children
    /\ callKind[children] = "Close"
    /\ ChildrenOf(rChildrenMap) # {}
    /\ rHanded = ChildrenOf(rChildrenMap)

\* the largest counter whose power of two is below maxSleepTime, plus one
MaxFailures == 15

\* C39: when every sleep lasts at least the delay asked for, the failure
\* counter of a run loop never exceeds 15, so 2^counter is at most 32768, a
\* whole number of milliseconds far below what a float64 holds exactly.
C39_CounterAtMostFifteen ==
    /\ [](\A u \in Sups :
            /\ consecutiveFailures[u] <= MaxFailures
            /\ 2 ^ consecutiveFailures[u] <= 32768)
    /\ [][\A u \in Sups :
            (Backoff(u) /\ consecutiveFailures[u] = MaxFailures) =>
                /\ timeSinceLastFailure'[u] >= maxSleepTime
                /\ consecutiveFailures'[u] = 1]_vars

\* a run loop has failed fifteen times in a row, each failure following the
\* sleep before it at once
C39_Witness ==
    \E u \in Sups :
        /\ consecutiveFailures[u] = MaxFailures
        /\ timeSinceLastFailure[u] = 2 ^ (MaxFailures - 1)
        /\ upc[u] = "loop"

====
